---- MODULE Spec2Model ----
(***************************************************************************)
(* NodeRunner (src/lib.rs, src/main.rs): the NodeRunnerProcessor with its  *)
(* processed_count counter, and the run orchestrator that reads an input   *)
(* file, calls process once and optionally writes the result as JSON.      *)
(*                                                                         *)
(* Text is a sequence of Unicode code points; str::len() is the UTF-8 byte *)
(* length.  usize is modelled with UsizeBits bits.                         *)
(***************************************************************************)
EXTENDS Integers, Sequences, FiniteSets, TLC

\* ------------------------------------------------------------------ bounds

\* Width in bits of usize in the model (16, 32 or 64 on real targets).
UsizeBits == 4
\* Longest input text drawn from Alphabet.
MaxLen == 1
\* Number of distinct clock readings chrono::Utc::now() may return.
MaxTime == 2
\* Number of times the executable is launched against the same file system.
MaxRuns == 2

UsizeModulus == 2 ^ UsizeBits
UsizeMax == UsizeModulus - 1
\* Completed process calls that are counted: enough to pass the wrap-around.
MaxCalls == UsizeModulus + 1

\* --------------------------------------------------------------------- text

\* 'a' (1 byte), e-acute (2 bytes), euro sign (3 bytes), an emoji (4 bytes).
Alphabet == {97, 233, 8364, 128512}

\* "hello"
Hello == <<104, 101, 108, 108, 111>>

RECURSIVE TextsUpTo(_)
TextsUpTo(n) ==
    IF n = 0 THEN {<<>>}
    ELSE LET shorter == TextsUpTo(n - 1)
         IN shorter \cup {Append(s, c) : s \in shorter, c \in Alphabet}

Texts == TextsUpTo(MaxLen) \cup {Hello}

Times == 0 .. (MaxTime - 1)

\* Option<T>: None is the empty sequence, Some(x) the one-element sequence.
None == <<>>
Some(x) == <<x>>

\* char::len_utf8, the number of bytes a code point takes in a str.
len_utf8(c) ==
    IF c < 128 THEN 1
    ELSE IF c < 2048 THEN 2
    ELSE IF c < 65536 THEN 3
    ELSE 4

\* The number of code points of a text (str::chars().count()).
chars_count(s) == Len(s)

\* str::len(): the length of the text in bytes.
RECURSIVE str_len(_)
str_len(s) ==
    IF s = <<>> THEN 0
    ELSE len_utf8(Head(s)) + str_len(Tail(s))

\* Display for usize, as used by format!("{}"): the decimal digits.
RECURSIVE to_decimal(_)
to_decimal(n) ==
    IF n < 10 THEN <<48 + n>>
    ELSE to_decimal(n \div 10) \o <<48 + (n % 10)>>

\* "Successfully processed item #"
MessagePrefix ==
    <<83, 117, 99, 99, 101, 115, 115, 102, 117, 108, 108, 121, 32,
      112, 114, 111, 99, 101, 115, 115, 101, 100, 32,
      105, 116, 101, 109, 32, 35>>

\* format!("Successfully processed item #{}", n)
format_message(n) == MessagePrefix \o to_decimal(n)

\* chrono::Utc::now().to_rfc3339(): the instant with the UTC offset.
to_rfc3339(now) == [instant |-> now, offset |-> "+00:00"]

\* ---------------------------------------------------------------- processor

\* NodeRunnerProcessor::new
new(verbose) == [verbose |-> verbose, processed_count |-> 0]

\* self.processed_count += 1 on a usize.  With overflow checks (the dev
\* profile) the addition panics at usize::MAX; without (the release profile)
\* it wraps around.
add_one_wraps(n) == (n + 1) % UsizeModulus
add_one_panics(n, overflow_checks) == overflow_checks /\ n = UsizeMax

\* The ProcessResult built by process once the counter holds `count`.
process_result(count, data, now) ==
    [success |-> TRUE,
     message |-> format_message(count),
     data    |-> Some([length       |-> str_len(data),
                       processed_at |-> to_rfc3339(now),
                       item_number  |-> count])]

\* Mutant of process: the result is built before the counter is incremented.
process_stale(self, data, now, overflow_checks) ==
    IF add_one_panics(self.processed_count, overflow_checks)
    THEN [panicked |-> TRUE, self |-> self, ret |-> None]
    ELSE LET count == add_one_wraps(self.processed_count)
             after == [self EXCEPT !.processed_count = count]
         IN [panicked |-> FALSE,
             self     |-> after,
             ret      |-> Some([tag |-> "Ok",
                                val |-> process_result(self.processed_count,
                                                       data, now)])]

\* NodeRunnerProcessor::process: the processor after the call and what the
\* call returns (Some(Ok(result))), or a panic that unwinds out of the call.
process(self, data, now, overflow_checks) ==
    IF add_one_panics(self.processed_count, overflow_checks)
    THEN [panicked |-> TRUE, self |-> self, ret |-> None]
    ELSE LET count == add_one_wraps(self.processed_count)
             after == [self EXCEPT !.processed_count = count]
         IN [panicked |-> FALSE,
             self     |-> after,
             ret      |-> Some([tag |-> "Ok",
                                val |-> process_result(count, data, now)])]

\* NodeRunnerProcessor::get_stats
get_stats(self) ==
    [processed_count |-> self.processed_count, verbose |-> self.verbose]

\* --------------------------------------------------------------------- JSON

\* serde_json tokens: punctuation, object keys and scalar values.
Punct(p)  == [t |-> "punct", v |-> p]
Key(k)    == [t |-> "key", v |-> k]
JBool(b)  == [t |-> "bool", v |-> b]
JNum(n)   == [t |-> "num", v |-> n]
JStr(s)   == [t |-> "str", v |-> s]
JNull     == [t |-> "null", v |-> "null"]

\* Serialize for Option<serde_json::Value> holding the json!({...}) map of
\* process: null for None, else the object (serde_json keeps keys sorted).
serialize_data(data) ==
    IF data = None THEN <<JNull>>
    ELSE LET d == data[1]
         IN <<Punct("{"),
              Key("item_number"), JNum(d.item_number), Punct(","),
              Key("length"), JNum(d.length), Punct(","),
              Key("processed_at"), JStr(d.processed_at),
              Punct("}")>>

\* serde_json::to_string_pretty(&ProcessResult): the derived Serialize
\* writes the fields in declaration order (white space is not modelled).
to_string_pretty(result) ==
    <<Punct("{"),
      Key("success"), JBool(result.success), Punct(","),
      Key("message"), JStr(result.message), Punct(","),
      Key("data")>>
    \o serialize_data(result.data)
    \o <<Punct("}")>>

\* ------------------------------------------------------------- file system

InputPaths == {"input.txt"}
OutputPaths == {"output.json"}

\* What an input path holds: nothing, a file that cannot be read as text, or
\* a readable text file.
Missing == [kind |-> "missing", text |-> <<>>]
Unreadable == [kind |-> "unreadable", text |-> <<>>]
TextFile(s) == [kind |-> "file", text |-> s]
FileStates == {Missing, Unreadable} \cup {TextFile(s) : s \in Texts}

\* The command line: Cli of main.rs.
CliArgs ==
    [verbose : BOOLEAN,
     input   : {None} \cup {Some(p) : p \in InputPaths},
     output  : {None} \cup {Some(p) : p \in OutputPaths}]

\* fs::read_to_string(path): the text, or an I/O error.
read_to_string(files, path) ==
    IF files[path].kind = "file"
    THEN [tag |-> "Ok", val |-> files[path].text]
    ELSE [tag |-> "Err", val |-> <<>>]

\* Mutant of read_input: a failed read is taken for an empty input
\* (unwrap_or_default() instead of `?`).
read_input_or_empty(files, input) ==
    IF input = None
    THEN [tag |-> "Ok", val |-> <<>>, event |-> <<>>]
    ELSE LET r == read_to_string(files, input[1])
         IN [tag   |-> "Ok",
             val   |-> r.val,
             event |-> IF r.tag = "Ok" THEN <<"read_ok">> ELSE <<"read_err">>]

\* The match on `input` in run: the text that is processed, or the error the
\* `?` propagates; `event` records whether a read was attempted.
read_input(files, input) ==
    IF input = None
    THEN [tag |-> "Ok", val |-> <<>>, event |-> <<>>]
    ELSE LET r == read_to_string(files, input[1])
         IN [tag   |-> r.tag,
             val   |-> r.val,
             event |-> IF r.tag = "Ok" THEN <<"read_ok">> ELSE <<"read_err">>]

\* ------------------------------------------------------------------- state

VARIABLES
    overflow_checks,  \* the build's overflow-checks setting
    processor,        \* the NodeRunnerProcessor a caller of the library holds
    last_op,          \* the call made last: "new", "process", "get_stats"
    last_input,       \* the text given to the last process call
    last_ret,         \* what the last process call returned (None: nothing yet)
    last_stats,       \* what the last get_stats call returned
    panicked,         \* a process call panicked
    calls,            \* process calls that returned
    run_pc,           \* where the executable is: "idle", "main", "read",
                      \* "process", "write", "return", "exited"
    args,             \* the parsed command line
    in_files,         \* the input paths of the file system
    out_files,        \* the output paths: None, or Some(the JSON written)
    out_at_launch,    \* out_files when the executable was launched
    run_processor,    \* run's local `processor`
    input_data,       \* run's local `input_data`
    run_result,       \* run's local `result`
    run_ret,          \* what run returns: Some("Ok") or Some("Err")
    exit_code,        \* the exit status of the executable
    events,           \* what this launch has done so far, in order
    launches          \* how many times the executable was launched

procVars == <<overflow_checks, processor, last_op, last_input, last_ret,
              last_stats, panicked, calls>>

runVars == <<run_pc, args, in_files, out_files, out_at_launch, run_processor,
             input_data, run_result, run_ret, exit_code, events, launches>>

vars == <<procVars, runVars>>

\* A caller of the library that holds a freshly built processor.
ProcInit ==
    /\ \E verbose \in BOOLEAN : processor = new(verbose)
    /\ last_op = "new"
    /\ last_input = <<>>
    /\ last_ret = None
    /\ last_stats = None
    /\ panicked = FALSE
    /\ calls = 0

\* The executable is not running.
RunIdle ==
    /\ run_pc = "idle"
    /\ args = [verbose |-> FALSE, input |-> None, output |-> None]
    /\ in_files = [p \in InputPaths |-> Missing]
    /\ out_files = [p \in OutputPaths |-> None]
    /\ out_at_launch = out_files
    /\ run_processor = None
    /\ input_data = None
    /\ run_result = None
    /\ run_ret = None
    /\ exit_code = None
    /\ events = <<>>
    /\ launches = 0

Init ==
    /\ overflow_checks \in BOOLEAN
    /\ ProcInit
    /\ RunIdle

\* A caller invokes processor.process(data).
Process ==
    /\ ~panicked
    /\ calls < MaxCalls
    /\ \E data \in Texts, now \in Times :
         LET out == process(processor, data, now, overflow_checks)
         IN /\ processor' = out.self
            /\ panicked' = out.panicked
            /\ last_ret' = out.ret
            /\ last_input' = data
            /\ calls' = IF out.panicked THEN calls ELSE calls + 1
    /\ last_op' = "process"
    /\ last_stats' = None
    /\ UNCHANGED <<overflow_checks, runVars>>

\* Mutant of GetStats: reading the statistics counts as processing an item.
GetStatsCounting ==
    /\ ~panicked
    /\ last_stats' = Some(get_stats(processor))
    /\ processor' =
          [processor EXCEPT !.processed_count = add_one_wraps(@)]
    /\ last_op' = "get_stats"
    /\ UNCHANGED <<overflow_checks, last_input, last_ret, panicked, calls,
                   runVars>>

\* A caller invokes processor.get_stats().
GetStats ==
    /\ ~panicked
    /\ last_stats' = Some(get_stats(processor))
    /\ last_op' = "get_stats"
    /\ UNCHANGED <<overflow_checks, processor, last_input, last_ret,
                   panicked, calls, runVars>>

Next == Process \/ GetStats

Spec == Init /\ [][Next]_vars

\* -------------------------------------------------------------- executable

\* The executable is launched with some command line on some file system.
RunInit ==
    /\ overflow_checks \in BOOLEAN
    /\ ProcInit
    /\ processor = new(FALSE)
    /\ run_pc = "main"
    /\ args \in CliArgs
    /\ in_files \in [InputPaths -> FileStates]
    /\ out_files = [p \in OutputPaths |-> None]
    /\ out_at_launch = out_files
    /\ run_processor = None
    /\ input_data = None
    /\ run_result = None
    /\ run_ret = None
    /\ exit_code = None
    /\ events = <<>>
    /\ launches = 1

\* main calls run, which sets up logging and builds its processor.
RunStart ==
    /\ run_pc = "main"
    /\ run_processor' = Some(new(args.verbose))
    /\ events' = Append(events, "new")
    /\ run_pc' = "read"
    /\ UNCHANGED <<procVars, args, in_files, out_files, out_at_launch,
                   input_data, run_result, run_ret, exit_code, launches>>

\* let input_data = match input { ... };
RunReadInput ==
    /\ run_pc = "read"
    /\ LET r == read_input(in_files, args.input)
       IN /\ events' = events \o r.event
          /\ IF r.tag = "Ok"
             THEN /\ input_data' = Some(r.val)
                  /\ run_pc' = "process"
                  /\ UNCHANGED run_ret
             ELSE /\ run_ret' = Some("Err")
                  /\ run_pc' = "return"
                  /\ UNCHANGED input_data
    /\ UNCHANGED <<procVars, args, in_files, out_files, out_at_launch,
                   run_processor, run_result, exit_code, launches>>

\* Mutant of RunProcess: the input is processed twice and the second result
\* is kept.
RunProcessTwice ==
    /\ run_pc = "process"
    /\ \E now \in Times :
         LET first == process(run_processor[1], input_data[1], now,
                              overflow_checks)
             out   == process(first.self, input_data[1], now, overflow_checks)
         IN /\ run_processor' = Some(out.self)
            /\ run_result' = Some(out.ret[1].val)
            /\ run_pc' = "write"
    /\ events' = Append(events, "process")
    /\ UNCHANGED <<procVars, args, in_files, out_files, out_at_launch,
                   input_data, run_ret, exit_code, launches>>

\* let result = processor.process(&input_data)?;
RunProcess ==
    /\ run_pc = "process"
    /\ \E now \in Times :
         LET out == process(run_processor[1], input_data[1], now,
                            overflow_checks)
         IN /\ run_processor' = Some(out.self)
            /\ IF out.panicked
               THEN /\ run_pc' = "exited"
                    /\ exit_code' = Some(101)
                    /\ UNCHANGED <<run_result, run_ret>>
               ELSE IF out.ret[1].tag = "Ok"
               THEN /\ run_result' = Some(out.ret[1].val)
                    /\ run_pc' = "write"
                    /\ UNCHANGED <<run_ret, exit_code>>
               ELSE /\ run_ret' = Some("Err")
                    /\ run_pc' = "return"
                    /\ UNCHANGED <<run_result, exit_code>>
    /\ events' = Append(events, "process")
    /\ UNCHANGED <<procVars, args, in_files, out_files, out_at_launch,
                   input_data, launches>>

\* Mutant of RunWrite: without an output path the result goes to a default
\* path.
RunWriteDefaultPath ==
    /\ run_pc = "write"
    /\ \E write_ok \in BOOLEAN :
         LET path == IF args.output = None THEN "output.json"
                     ELSE args.output[1]
         IN IF write_ok
            THEN /\ out_files' =
                      [out_files EXCEPT ![path] =
                          Some(to_string_pretty(run_result[1]))]
                 /\ events' = Append(events, "write_ok")
                 /\ run_ret' = Some("Ok")
            ELSE /\ events' = Append(events, "write_err")
                 /\ run_ret' = Some("Err")
                 /\ UNCHANGED out_files
    /\ run_pc' = "return"
    /\ UNCHANGED <<procVars, args, in_files, out_at_launch, run_processor,
                   input_data, run_result, exit_code, launches>>

\* Mutant of RunWrite: the outcome of fs::write is dropped (`let _ = ...`).
RunWriteIgnoringFailure ==
    /\ run_pc = "write"
    /\ IF args.output = None
       THEN UNCHANGED <<out_files, events>>
       ELSE \E write_ok \in BOOLEAN :
              IF write_ok
              THEN /\ out_files' =
                        [out_files EXCEPT ![args.output[1]] =
                            Some(to_string_pretty(run_result[1]))]
                   /\ events' = Append(events, "write_ok")
              ELSE /\ events' = Append(events, "write_err")
                   /\ UNCHANGED out_files
    /\ run_ret' = Some("Ok")
    /\ run_pc' = "return"
    /\ UNCHANGED <<procVars, args, in_files, out_at_launch, run_processor,
                   input_data, run_result, exit_code, launches>>

\* if let Some(output_path) = output { fs::write(...)? }  Ok(())
\* fs::write either replaces the file or fails and leaves it as it was.
RunWrite ==
    /\ run_pc = "write"
    /\ IF args.output = None
       THEN /\ run_ret' = Some("Ok")
            /\ UNCHANGED <<out_files, events>>
       ELSE \E write_ok \in BOOLEAN :
              IF write_ok
              THEN /\ out_files' =
                        [out_files EXCEPT ![args.output[1]] =
                            Some(to_string_pretty(run_result[1]))]
                   /\ events' = Append(events, "write_ok")
                   /\ run_ret' = Some("Ok")
              ELSE /\ events' = Append(events, "write_err")
                   /\ run_ret' = Some("Err")
                   /\ UNCHANGED out_files
    /\ run_pc' = "return"
    /\ UNCHANGED <<procVars, args, in_files, out_at_launch, run_processor,
                   input_data, run_result, exit_code, launches>>

\* run returns to main, and main's Result becomes the exit status.
RunReturn ==
    /\ run_pc = "return"
    /\ exit_code' = Some(IF run_ret = Some("Ok") THEN 0 ELSE 1)
    /\ run_pc' = "exited"
    /\ UNCHANGED <<procVars, args, in_files, out_files, out_at_launch,
                   run_processor, input_data, run_result, run_ret, events,
                   launches>>

\* The executable is launched again, on the file system the last run left.
Relaunch ==
    /\ run_pc = "exited"
    /\ launches < MaxRuns
    /\ args' \in CliArgs
    /\ run_pc' = "main"
    /\ out_at_launch' = out_files
    /\ run_processor' = None
    /\ input_data' = None
    /\ run_result' = None
    /\ run_ret' = None
    /\ exit_code' = None
    /\ events' = <<>>
    /\ launches' = launches + 1
    /\ UNCHANGED <<procVars, in_files, out_files>>

RunNext ==
    \/ RunStart
    \/ RunReadInput
    \/ RunProcess
    \/ RunWrite
    \/ RunReturn
    \/ Relaunch

RunSpec == RunInit /\ [][RunNext]_vars

\* ------------------------------------------------------------------ claims

\* The UTF-8 length of a text, counted without recursion: one byte per code
\* point and one more for each threshold the code point reaches.
ByteCount(s) ==
    Len(s)
    + Cardinality({i \in 1 .. Len(s) : s[i] >= 128})
    + Cardinality({i \in 1 .. Len(s) : s[i] >= 2048})
    + Cardinality({i \in 1 .. Len(s) : s[i] >= 65536})

\* The number a sequence of decimal digits denotes.
RECURSIVE from_decimal(_)
from_decimal(ds) ==
    IF ds = <<>> THEN 0
    ELSE from_decimal(SubSeq(ds, 1, Len(ds) - 1)) * 10 + (ds[Len(ds)] - 48)

EndsWith(s, suffix) ==
    /\ Len(s) >= Len(suffix)
    /\ SubSeq(s, Len(s) - Len(suffix) + 1, Len(s)) = suffix

\* The item number a message names, and whether it has the fixed wording.
HasPrefix(msg) ==
    /\ Len(msg) > Len(MessagePrefix)
    /\ SubSeq(msg, 1, Len(MessagePrefix)) = MessagePrefix
MessageNumber(msg) ==
    from_decimal(SubSeq(msg, Len(MessagePrefix) + 1, Len(msg)))

\* The last process call returned (it did not panic).
Returned == last_op = "process" /\ ~panicked

\* C1: after the k-th process call on a processor built by new, get_stats
\* reports processed_count = k.
C1_CountEqualsCalls ==
    get_stats(processor).processed_count = calls

\* C2: no step of a sequence of process and get_stats calls lowers
\* processed_count, whatever value it holds, the maximum included.
C2_CounterNeverDecreases ==
    [][processor'.processed_count >= processor.processed_count]_vars

\* C3: every process call returns Ok with success = true and data present;
\* none fails to return.
C3_ProcessAlwaysOk ==
    last_op = "process" =>
        /\ ~panicked
        /\ last_ret # None
        /\ last_ret[1].tag = "Ok"
        /\ last_ret[1].val.success = TRUE
        /\ last_ret[1].val.data # None

\* C4: the result a process call returns names the counter as it stands
\* after the call: the message is the fixed wording followed by that number
\* in decimal, data.item_number is that number, and get_stats reports it.
C4_ResultReportsPostIncrement ==
    Returned =>
        LET r == last_ret[1].val
            n == get_stats(processor).processed_count
        IN /\ HasPrefix(r.message)
           /\ MessageNumber(r.message) = n
           /\ r.data[1].item_number = n

C4_Witness ==
    /\ Returned
    /\ processor.processed_count = 12
    /\ last_ret[1].val.data[1].item_number = 12
    /\ EndsWith(last_ret[1].val.message, <<35, 49, 50>>)

\* C5: data.length of the result is the byte length of the input text, for
\* every counter value and verbose flag; the empty text gives 0.
C5_LengthIsByteLength ==
    Returned =>
        /\ last_ret[1].val.data[1].length = ByteCount(last_input)
        /\ (last_input = <<>> => last_ret[1].val.data[1].length = 0)

C5_Witness ==
    /\ Returned
    /\ last_input = <<8364>>
    /\ last_ret[1].val.data[1].length = 3
    /\ processor.processed_count > 1
    /\ processor.verbose

\* C6: a get_stats call returns the processor's processed_count and verbose
\* and changes neither, nor anything a later process call depends on.
C6_GetStatsIsPureRead ==
    [][last_op' = "get_stats" =>
          /\ processor' = processor
          /\ overflow_checks' = overflow_checks
          /\ last_stats' = Some([processed_count |-> processor.processed_count,
                                 verbose         |-> processor.verbose])
          /\ last_ret' = last_ret
          /\ calls' = calls]_vars

C6_Witness ==
    /\ last_op = "get_stats"
    /\ calls = 2
    /\ last_stats = Some([processed_count |-> 2, verbose |-> TRUE])

\* Reading a written JSON document back: a value starting at token i, with the index
\* of the token after it.  An object is the sequence of its members.
RECURSIVE parse_value(_, _), parse_members(_, _, _)
parse_value(toks, i) ==
    IF toks[i].t = "punct"
    THEN parse_members(toks, i + 1, <<>>)
    ELSE [val |-> toks[i], next |-> i + 1]
parse_members(toks, i, acc) ==
    LET member == parse_value(toks, i + 1)
        all    == Append(acc, [key |-> toks[i].v, val |-> member.val])
    IN IF toks[member.next].v = "}"
       THEN [val |-> [t |-> "object", v |-> all], next |-> member.next + 1]
       ELSE parse_members(toks, member.next + 1, all)

from_str(toks) == parse_value(toks, 1).val

\* value[key] of a parsed JSON object.
json_get(obj, key) ==
    LET i == CHOOSE j \in 1 .. Len(obj.v) : obj.v[j].key = key
    IN obj.v[i].val

\* What this launch of the executable has done.
Did(e) == \E i \in 1 .. Len(events) : events[i] = e
Count(es) == Cardinality({i \in 1 .. Len(events) : events[i] \in es})
WriteEvents == {"write_ok", "write_err"}
ReadEvents == {"read_ok", "read_err"}

\* The input path is given and cannot be read / the input can be obtained.
BadInput ==
    /\ args.input # None
    /\ in_files[args.input[1]].kind # "file"
GoodInput == ~BadInput

\* The text a launch with good input hands to process.
ExpectedInput ==
    IF args.input = None THEN <<>> ELSE in_files[args.input[1]].text

\* A written output file, parsed.
Parsed(p) == from_str(out_files[p][1])
FileSaysFirstItem(p) ==
    /\ json_get(Parsed(p), "success") = JBool(TRUE)
    /\ EndsWith(json_get(Parsed(p), "message").v, <<35, 49>>)
    /\ json_get(Parsed(p), "data").t = "object"
    /\ json_get(json_get(Parsed(p), "data"), "item_number") = JNum(1)

\* C7: with a missing or unreadable input path the run never calls process,
\* writes no output file and ends with a non-zero exit status.
C7_BadInputAborts ==
    (BadInput /\ run_pc # "idle") =>
        /\ ~Did("process")
        /\ Count(WriteEvents) = 0
        /\ out_files = out_at_launch
        /\ run_result = None
        /\ run_pc \in {"return", "exited"} => run_ret = Some("Err")
        /\ run_pc = "exited" => (exit_code # None /\ exit_code[1] # 0)

C7_Witness ==
    /\ run_pc = "exited"
    /\ BadInput
    /\ Did("read_err")
    /\ args.output # None
    /\ out_files[args.output[1]] = None
    /\ exit_code = Some(1)

\* C8: a run whose input is read builds one processor with count 0 and calls
\* process once on the input text, after the read and before any write; a
\* file it writes says success, item 1, a message ending in "#1" and the
\* byte length of the input (5 for "hello", 0 without an input path).
C8_OneProcessCallPerRun ==
    LET read   == IF args.input = None THEN <<>> ELSE <<"read_ok">>
        before == <<"new">> \o read
    IN (run_pc # "idle" /\ input_data # None) =>
        /\ input_data = Some(ExpectedInput)
        /\ Count({"new"}) = 1
        /\ run_pc = "process" =>
              /\ events = before
              /\ run_processor = Some(new(args.verbose))
        /\ run_pc \in {"write", "return", "exited"} =>
              /\ SubSeq(events, 1, Len(before) + 1) = before \o <<"process">>
              /\ Count({"process"}) = 1
              /\ Len(events) <= Len(before) + 2
              /\ run_processor[1].processed_count = 1
              /\ run_result[1].success = TRUE
              /\ run_result[1].data[1].item_number = 1
              /\ run_result[1].data[1].length = ByteCount(ExpectedInput)
        /\ Did("write_ok") =>
              LET p == args.output[1]
              IN /\ events[Len(events)] = "write_ok"
                 /\ FileSaysFirstItem(p)
                 /\ json_get(json_get(Parsed(p), "data"), "length")
                       = JNum(ByteCount(ExpectedInput))
                 /\ ExpectedInput = Hello =>
                       json_get(json_get(Parsed(p), "data"), "length")
                          = JNum(5)
                 /\ args.input = None =>
                       json_get(json_get(Parsed(p), "data"), "length")
                          = JNum(0)
        /\ \A p \in OutputPaths :
              out_files[p] # None => FileSaysFirstItem(p)

C8_Witness ==
    /\ run_pc = "exited"
    /\ events = <<"new", "read_ok", "process", "write_ok">>
    /\ input_data = Some(Hello)
    /\ json_get(json_get(Parsed(args.output[1]), "data"), "length") = JNum(5)
    /\ exit_code = Some(0)

\* C9: a run without an output path attempts no write and leaves every
\* output file as it found it, and with readable (or no) input it exits 0;
\* a write is attempted only with an output path.
C9_NoOutputNoWrite ==
    /\ (args.output = None /\ run_pc # "idle") =>
          /\ Count(WriteEvents) = 0
          /\ out_files = out_at_launch
          /\ (GoodInput /\ run_pc = "exited") => exit_code = Some(0)
    /\ Count(WriteEvents) > 0 => args.output # None

C9_Witness ==
    /\ run_pc = "exited"
    /\ args.output = None
    /\ args.input # None
    /\ Did("read_ok")
    /\ Did("process")
    /\ exit_code = Some(0)
    /\ launches = 2
    /\ out_files["output.json"] # None

\* C10: a failed read or write ends the run with an error and nothing is
\* tried again: at most one read and one write per run, nothing follows a
\* failure, and the exit status is 0 only if no read or write failed.
C10_IoFailureAborts ==
    LET failed == Did("read_err") \/ Did("write_err")
    IN run_pc # "idle" =>
        /\ Count(ReadEvents) <= 1
        /\ Count(WriteEvents) <= 1
        /\ failed =>
              /\ events[Len(events)] \in {"read_err", "write_err"}
              /\ run_pc \in {"return", "exited"}
              /\ run_ret = Some("Err")
        /\ run_pc = "exited" =>
              /\ failed => exit_code = Some(1)
              /\ exit_code = Some(0) => ~failed

C10_Witness ==
    /\ run_pc = "exited"
    /\ events = <<"new", "read_ok", "process", "write_err">>
    /\ exit_code = Some(1)
    /\ out_files = out_at_launch

====
